---- MODULE Spec2Model ----
(***************************************************************************)
(* Tower of Hanoi: the browser puzzle engine (class TowerOfHanoi) and the  *)
(* score service (the rate-limited, capped server.js and the open variant  *)
(* with the bulk delete).                                                  *)
(*                                                                         *)
(* A disk is its size rank i (its width is i * 25 + 20 px); the DOM nodes,  *)
(* the displays and the elapsed time (startTime, updateTimer) are left out: *)
(* no handler reads them back, except the width isValidMove compares.      *)
(*                                                                         *)
(* Spec        the puzzle engine: start, peg clicks, reset.                *)
(* ServerSpec  the score service: requests arrive, are handled one at a    *)
(*             time by the synchronous handlers, and time passes.          *)
(***************************************************************************)
EXTENDS Integers, Sequences, FiniteSets, Bags, TLC

VARIABLES
    \* ---- puzzle engine (TowerOfHanoi) ----
    towers,         \* towers[0..2]: disks bottom to top, a disk is its rank i
    selectedTower,  \* Null or 0..2
    moves,          \* the move counter
    isPlaying,      \* the active flag
    timerInterval,  \* the handle kept in this.timerInterval (Null at first)
    activeTimers,   \* the interval tasks currently scheduled by the page
    saveResult,     \* what the last saveScore call did
    lastOp,         \* the last UI event and the state it found (history)
    \* ---- score service ----
    variant,        \* "limited" (server.js) or "open" (the variant with DELETE)
    store,          \* the scores table: a bag of rows
    now,            \* the server's clock, in hours
    req,            \* the request in flight, NoReq when there is none
    response,       \* the answer to the last handled request
    before,         \* the table as the request in flight found it (history)
    inserted,       \* rows inserted since the process started
    \* ---- score service: what an observer writes down (history) ----
    log,            \* RateSpec: the origin and the hour of every INSERT made
    ever,           \* BoardSpec: every row the table has ever held
    \* ---- score service: the event loop, statement by statement ----
    pending,        \* ConcSpec: POST requests received and not yet started
    running         \* ConcSpec: the handler calls begun and not yet returned

gameVars == <<towers, selectedTower, moves, isPlaying, timerInterval,
              activeTimers, saveResult, lastOp>>

coreVars == <<variant, store, now, req, response, before, inserted>>

histVars == <<log, ever>>

loopVars == <<pending, running>>

serverVars == <<coreVars, histVars, loopVars>>

vars == <<gameVars, serverVars>>

\* null: a value that is no peg index and no timer handle
Null == 0 - 1

(***************************************************************************)
(* Puzzle engine                                                           *)
(***************************************************************************)
numDisks == 6

\* Bound on the move counter: the clicks stop once it is reached.
MaxMoves == 65

Pegs == 0..2

\* Math.pow(2, n)
RECURSIVE Pow2(_)
Pow2(n) == IF n = 0 THEN 1 ELSE 2 * Pow2(n - 1)

minMoves == Pow2(numDisks) - 1

\* disk.style.width = `${i * 25 + 20}px`; parseInt reads the number back.
StyleWidth(i) == i * 25 + 20

\* tower[tower.length - 1]
Top(tower) == tower[Len(tower)]

\* tower.pop() leaves the tower without its last element
Pop(tower) == SubSeq(tower, 1, Len(tower) - 1)

\* for (i = numDisks; i > 0; i--) towers[0].push(disk i)
RECURSIVE PushDisks(_, _)
PushDisks(tower, i) ==
    IF i > 0 THEN PushDisks(Append(tower, i), i - 1) ELSE tower

initializeGame(tw) == [tw EXCEPT ![0] = PushDisks(tw[0], numDisks)]

\* A plausible slip: the sizes are compared the wrong way round.
isValidMoveReversed(tw, fromTower, toTower) ==
    IF fromTower = toTower THEN FALSE
    ELSE IF Len(tw[fromTower]) = 0 THEN FALSE
    ELSE IF Len(tw[toTower]) = 0 THEN TRUE
    ELSE StyleWidth(Top(tw[fromTower])) > StyleWidth(Top(tw[toTower]))

\* A plausible slip: the size comparison is left out.
isValidMoveAnySize(tw, fromTower, toTower) ==
    IF fromTower = toTower THEN FALSE
    ELSE Len(tw[fromTower]) # 0

\* A plausible slip: <= instead of <, or the same-peg test left out.
isValidMoveSamePeg(tw, fromTower, toTower) ==
    IF Len(tw[fromTower]) = 0 THEN FALSE
    ELSE IF Len(tw[toTower]) = 0 THEN TRUE
    ELSE StyleWidth(Top(tw[fromTower])) <= StyleWidth(Top(tw[toTower]))

isValidMove(tw, fromTower, toTower) ==
    IF fromTower = toTower THEN FALSE
    ELSE IF Len(tw[fromTower]) = 0 THEN FALSE
    ELSE IF Len(tw[toTower]) = 0 THEN TRUE
    ELSE StyleWidth(Top(tw[fromTower])) < StyleWidth(Top(tw[toTower]))

\* A plausible slip: the disk is read without being popped.
moveDiskNoPop(tw, fromTower, toTower) ==
    [tw EXCEPT ![toTower] = Append(tw[toTower], Top(tw[fromTower]))]

moveDisk(tw, fromTower, toTower) ==
    [tw EXCEPT ![fromTower] = Pop(tw[fromTower]),
               ![toTower] = Append(tw[toTower], Top(tw[fromTower]))]

\* A plausible slip: any peg but the start peg counts as the goal.
checkWinAnyPeg(tw) == Len(tw[2]) = numDisks \/ Len(tw[1]) = numDisks

checkWin(tw) == Len(tw[2]) = numDisks

\* setInterval returns a handle no scheduled task has
FreshTimer(active) == CHOOSE h \in 1..(Cardinality(active) + 1) : h \notin active

\* clearInterval(h): a handle of no scheduled task (or null) clears nothing
clearInterval(active, h) == active \ {h}

\* Where the session stands, as the next event finds it.
Phase ==
    IF isPlaying
    THEN (IF selectedTower = Null THEN "playing" ELSE "selected")
    ELSE (IF checkWin(towers) THEN "won" ELSE "idle")

Event(op, idx) ==
    [op |-> op, idx |-> idx, sel |-> selectedTower, movesBefore |-> moves,
     pre |-> Phase]

GameInit ==
    /\ towers = initializeGame([p \in Pegs |-> <<>>])
    /\ selectedTower = Null
    /\ moves = 0
    /\ isPlaying = FALSE
    /\ timerInterval = Null
    /\ activeTimers = {}
    /\ saveResult = "none"
    /\ lastOp = [op |-> "load", idx |-> Null, sel |-> Null, movesBefore |-> 0,
                 pre |-> "idle"]

\* A plausible slip: the start button without its isPlaying test.
startGameAlways ==
    /\ lastOp' = Event("start", Null)
    /\ isPlaying' = TRUE
    /\ timerInterval' = FreshTimer(activeTimers)
    /\ activeTimers' = activeTimers \cup {FreshTimer(activeTimers)}
    /\ UNCHANGED <<towers, selectedTower, moves, saveResult>>

\* startGame(): the start button
startGame ==
    /\ lastOp' = Event("start", Null)
    /\ IF ~isPlaying
       THEN /\ isPlaying' = TRUE
            /\ timerInterval' = FreshTimer(activeTimers)
            /\ activeTimers' = activeTimers \cup {FreshTimer(activeTimers)}
       ELSE UNCHANGED <<isPlaying, timerInterval, activeTimers>>
    /\ UNCHANGED <<towers, selectedTower, moves, saveResult>>

\* saveScore(time): the prompt may be cancelled or left empty (named = FALSE)
saveScore(named, m) ==
    IF ~named THEN "cancelled"
    ELSE IF m < minMoves THEN "rejected"
    ELSE "posted"

\* handleWin(), with the saveScore it calls
handleWin ==
    /\ activeTimers' = clearInterval(activeTimers, timerInterval)
    /\ isPlaying' = FALSE
    /\ \E named \in BOOLEAN : saveResult' = saveScore(named, moves')

\* A plausible slip: the selection is cleared inside the if, only when the
\* move is made.
secondClickKeepsSelection(towerIndex) ==
    IF isValidMove(towers, selectedTower, towerIndex)
    THEN /\ towers' = moveDisk(towers, selectedTower, towerIndex)
         /\ moves' = moves + 1
         /\ IF checkWin(towers')
            THEN handleWin
            ELSE UNCHANGED <<activeTimers, isPlaying, saveResult>>
         /\ selectedTower' = Null
    ELSE UNCHANGED <<towers, moves, activeTimers, isPlaying, saveResult,
                     selectedTower>>

\* handleTowerClick, the else branch: a peg is selected already
secondClick(towerIndex) ==
    /\ IF isValidMove(towers, selectedTower, towerIndex)
       THEN /\ towers' = moveDisk(towers, selectedTower, towerIndex)
            /\ moves' = moves + 1
            /\ IF checkWin(towers')
               THEN handleWin
               ELSE UNCHANGED <<activeTimers, isPlaying, saveResult>>
       ELSE UNCHANGED <<towers, moves, activeTimers, isPlaying, saveResult>>
    /\ selectedTower' = Null

\* handleTowerClick(towerIndex)
handleTowerClick(towerIndex) ==
    /\ moves < MaxMoves
    /\ lastOp' = Event("click", towerIndex)
    /\ IF ~isPlaying
       THEN UNCHANGED <<towers, selectedTower, moves, isPlaying, activeTimers,
                        saveResult>>
       ELSE IF selectedTower = Null
       THEN /\ selectedTower' =
                IF Len(towers[towerIndex]) > 0 THEN towerIndex ELSE Null
            /\ UNCHANGED <<towers, moves, isPlaying, activeTimers, saveResult>>
       ELSE secondClick(towerIndex)
    /\ UNCHANGED timerInterval

\* A plausible slip: the towers are not emptied before they are refilled.
resetGameKeepsDisks ==
    /\ lastOp' = Event("reset", Null)
    /\ towers' = initializeGame(towers)
    /\ moves' = 0
    /\ activeTimers' = clearInterval(activeTimers, timerInterval)
    /\ isPlaying' = FALSE
    /\ selectedTower' = Null
    /\ UNCHANGED <<timerInterval, saveResult>>

\* A plausible slip: the reset forgets the selection.
resetGameKeepsSelection ==
    /\ lastOp' = Event("reset", Null)
    /\ towers' = initializeGame([p \in Pegs |-> <<>>])
    /\ moves' = 0
    /\ activeTimers' = clearInterval(activeTimers, timerInterval)
    /\ isPlaying' = FALSE
    /\ UNCHANGED <<selectedTower, timerInterval, saveResult>>

\* resetGame(): the reset button
resetGame ==
    /\ lastOp' = Event("reset", Null)
    /\ towers' = initializeGame([p \in Pegs |-> <<>>])
    /\ moves' = 0
    /\ activeTimers' = clearInterval(activeTimers, timerInterval)
    /\ isPlaying' = FALSE
    /\ selectedTower' = Null
    /\ UNCHANGED <<timerInterval, saveResult>>

(***************************************************************************)
(* Score service.  The model starts where a request reaches its route      *)
(* handler: what the middleware in front of the routes answers by itself   *)
(* is not part of it.  better-sqlite3 is synchronous, so a handler runs    *)
(* from its first statement to its response without another one running.   *)
(***************************************************************************)

\* if (count.count >= 100)
MaxScores == 100

\* if (recentScores.count >= 5)
MaxPerHour == 5

\* if (name.length > 50)
MaxNameLen == 50

\* time > 3600
MaxTime == 3600

\* The calendar day of the date texts: "YYYY-MM-DD" changes every 24 hours.
HoursPerDay == 24

\* Bound: rows one run of the service inserts.
MaxInserts == 2

\* Bound: hours that pass during one run.
MaxTicks == 1

\* The run starts in the last hour of day 1.
StartClock == 2 * HoursPerDay - 1

\* ---- JSON values of a request body ----
\* A name: its type, its length and how many of its characters are leading
\* or trailing white space (what trim() removes).
NameMissing == [t |-> "undefined", len |-> 0, ws |-> 0]
NameBlank == [t |-> "string", len |-> 2, ws |-> 2]
NameAnn == [t |-> "string", len |-> 3, ws |-> 0]
NameLong == [t |-> "string", len |-> MaxNameLen + 1, ws |-> 0]
Names == {NameMissing, NameBlank, NameAnn, NameLong}

Num(v) == [t |-> "number", v |-> v]
Str(v) == [t |-> "string", v |-> v]   \* the digits of v, sent as a string

Times == {Str(30), Num(0 - 1), Num(30), Num(MaxTime + 1)}
MovesValues == {Str(63), Num(0 - 1), Num(62), Num(63), Num(200)}

\* A date: null, a string that is no date, or the text of the instant h
\* (hours) in the format fmt: "iso" is Date#toISOString, YYYY-MM-DDTHH:..Z,
\* "sql" is SQLite's YYYY-MM-DD HH:MM:SS.
DateNull == [t |-> "null", fmt |-> "none", h |-> 0]
DateBad == [t |-> "string", fmt |-> "bad", h |-> 0]
Iso(h) == [t |-> "string", fmt |-> "iso", h |-> h]
Dates == {DateNull, DateBad, Iso(0), Iso(StartClock), Iso(StartClock + 1)}

Ips == {"a", "b"}
NoIp == "-"

PostRequests ==
    [method : {"POST"}, ip : Ips, name : Names, time : Times,
     moves : MovesValues, date : Dates]

Bodyless(method, ip) ==
    [method |-> method, ip |-> ip, name |-> NameMissing, time |-> Num(0),
     moves |-> Num(0), date |-> DateNull]

NoReq == Bodyless("none", NoIp)

\* ---- rows ----
Row(n, t, m, d, ip) ==
    [name |-> n, time |-> t, moves |-> m, date |-> d, ip |-> ip]

\* ORDER BY moves, time: r ranks strictly before s
Better(r, s) ==
    \/ r.moves.v < s.moves.v
    \/ r.moves.v = s.moves.v /\ r.time.v < s.time.v

Rows(st) == BagToSet(st)

\* A plausible slip: ORDER BY moves DESC alone, the time left out.
WorstRowsByMovesOnly(st) ==
    {r \in Rows(st) : \A s \in Rows(st) : r.moves.v >= s.moves.v}

\* A plausible slip: the DELETE ordered like the GET, moves ASC, time ASC.
WorstRowsAscending(st) ==
    {r \in Rows(st) : \A s \in Rows(st) : ~Better(s, r)}

\* SELECT id FROM scores ORDER BY moves DESC, time DESC LIMIT 1: a row no
\* other row ranks after (SQLite may return any of several such rows)
WorstRows(st) == {r \in Rows(st) : \A s \in Rows(st) : ~Better(r, s)}

\* A plausible slip: ORDER BY moves ASC alone, the time left out.
BestRowsByMovesOnly(st) ==
    {r \in Rows(st) : \A s \in Rows(st) : r.moves.v <= s.moves.v}

BestRows(st) == {r \in Rows(st) : \A s \in Rows(st) : ~Better(s, r)}

DeleteRow(st, r) == st (-) SetToBag({r})

InsertRow(st, r) == st (+) SetToBag({r})

\* ---- dates and texts ----
\* new Date(date).getTime(): null is the epoch, a string that is no date NaN
ParseDate(d) ==
    IF d.t = "null" THEN [nan |-> FALSE, h |-> 0]
    ELSE IF d.fmt = "bad" THEN [nan |-> TRUE, h |-> 0]
    ELSE [nan |-> FALSE, h |-> d.h]

\* The text of a date as SQLite compares it: the day, the character after
\* the day ("T" is 84, " " is 32), the time of day.
DateText(d) ==
    <<d.h \div HoursPerDay, IF d.fmt = "iso" THEN 84 ELSE 32, d.h % HoursPerDay>>

\* datetime("now", "-1 hour")
Cutoff(clock) == [t |-> "string", fmt |-> "sql", h |-> clock - 1]

\* text a > text b, position by position
RECURSIVE TextGreater(_, _)
TextGreater(a, b) ==
    IF a = <<>> \/ b = <<>> THEN a # <<>>
    ELSE IF Head(a) # Head(b) THEN Head(a) > Head(b)
    ELSE TextGreater(Tail(a), Tail(b))

\* SELECT COUNT(*) FROM scores WHERE ip_address = ? AND date > datetime(..)
RECURSIVE SumCopies(_, _)
SumCopies(st, rows) ==
    IF rows = {} THEN 0
    ELSE LET r == CHOOSE x \in rows : TRUE
         IN CopiesIn(r, st) + SumCopies(st, rows \ {r})

RecentCount(st, ip, clock) ==
    SumCopies(st, {r \in Rows(st) :
        r.ip = ip /\ TextGreater(DateText(r.date), DateText(Cutoff(clock)))})

\* ---- validateScore ----
\* A plausible slip: the minimum of another number of disks.
ServerMinMovesFiveDisks == Pow2(5) - 1

\* const minMoves = Math.pow(2, 6) - 1
ServerMinMoves == Pow2(6) - 1

Valid == "valid"

\* A plausible slip: the moves are checked before the time.
validateScoreMovesFirst(score, ip, st, clock) ==
    IF score.name.t = "undefined" \/ score.name.len = 0
       \/ score.name.t # "string" \/ score.name.len - score.name.ws = 0
    THEN "Invalid name"
    ELSE IF score.name.len > MaxNameLen THEN "Name too long"
    ELSE IF score.moves.t # "number" \/ score.moves.v < 0 THEN "Invalid moves"
    ELSE IF score.moves.v < ServerMinMoves THEN "Invalid number of moves"
    ELSE IF score.time.t # "number" \/ score.time.v < 0
            \/ score.time.v > MaxTime
    THEN "Invalid time"
    ELSE IF ParseDate(score.date).nan \/ ParseDate(score.date).h > clock
    THEN "Invalid date"
    ELSE IF RecentCount(st, ip, clock) >= MaxPerHour
    THEN "Too many submissions from this IP"
    ELSE Valid

\* server.js: validateScore(score, ip); the result is the error, or Valid
validateScoreLimited(score, ip, st, clock) ==
    IF score.name.t = "undefined" \/ score.name.len = 0
       \/ score.name.t # "string" \/ score.name.len - score.name.ws = 0
    THEN "Invalid name"
    ELSE IF score.name.len > MaxNameLen THEN "Name too long"
    ELSE IF score.time.t # "number" \/ score.time.v < 0
            \/ score.time.v > MaxTime
    THEN "Invalid time"
    ELSE IF score.moves.t # "number" \/ score.moves.v < 0 THEN "Invalid moves"
    ELSE IF score.moves.v < ServerMinMoves THEN "Invalid number of moves"
    ELSE IF ParseDate(score.date).nan \/ ParseDate(score.date).h > clock
    THEN "Invalid date"
    ELSE IF RecentCount(st, ip, clock) >= MaxPerHour
    THEN "Too many submissions from this IP"
    ELSE Valid

\* the open variant: validateScore(score)
validateScoreOpen(score) ==
    IF score.name.t = "undefined" \/ score.name.len = 0
       \/ score.name.t # "string" \/ score.name.len - score.name.ws = 0
    THEN "Invalid name"
    ELSE IF score.time.t # "number" \/ score.time.v < 0 THEN "Invalid time"
    ELSE IF score.moves.t # "number" \/ score.moves.v < 0 THEN "Invalid moves"
    ELSE IF score.moves.v < ServerMinMoves THEN "Invalid number of moves"
    ELSE Valid

\* ---- responses ----
Answer(status, error, body) == [status |-> status, error |-> error, body |-> body]

NoResponse == Answer(0, "", <<>>)

\* INSERT INTO scores ...: the date column is NOT NULL, a null date throws
InsertThrows(score) == score.date.t = "null"

\* ---- the table a run may find ----
\* The table lives in the file scores.db and outlasts the process, so a run
\* finds what earlier runs left: nothing, or (limited variant) one row short
\* of the cap.  Every row of it passed validateScore when it was inserted.
Old(t, m, ip) == Row(NameAnn, Num(t), Num(m), Iso(0), ip)

AlmostFull ==
    [r \in {Old(30, 63, "a"), Old(MaxTime, 100, "a"), Old(30, 200, "b"),
            Old(500, 200, "b")} |->
        IF r = Old(30, 63, "a") THEN MaxScores - 4 ELSE 1]

\* Five rows one origin sent, with their true dates, since the hour began.
Busy == [r \in {Row(NameAnn, Num(30), Num(63), Iso(StartClock), "a")} |->
            MaxPerHour]

ServerInit ==
    /\ variant \in {"limited", "open"}
    /\ store \in (IF variant = "limited" THEN {EmptyBag, AlmostFull, Busy}
                  ELSE {EmptyBag})
    /\ now = StartClock
    /\ req = NoReq
    /\ response = NoResponse
    /\ before = store
    /\ inserted = 0
    /\ log = EmptyBag
    /\ ever = store
    /\ pending = EmptyBag
    /\ running = {}

\* ---- requests arrive ----
\* One request at a time: the next one is sent when the answer to the last
\* one has been read.
CanSend == req = NoReq /\ response = NoResponse

Arrive(r) ==
    /\ req' = r
    /\ before' = store
    /\ UNCHANGED <<variant, store, now, response, inserted>>

\* the client reads the answer (saveScore / loadHighScores after fetch)
ReadResponse ==
    /\ response # NoResponse
    /\ response' = NoResponse
    /\ before' = store
    /\ UNCHANGED <<variant, store, now, req, inserted>>

SendPost ==
    /\ CanSend
    /\ inserted < MaxInserts
    /\ \E r \in PostRequests : Arrive(r)

SendGet == CanSend /\ \E ip \in Ips : Arrive(Bodyless("GET", ip))

\* only the open variant has the route
SendDelete ==
    /\ CanSend
    /\ variant = "open"
    /\ \E ip \in Ips : Arrive(Bodyless("DELETE", ip))

\* ---- server.js: app.post('/api/scores') ----
\* A plausible slip: > instead of >=.
EvictedAboveCap(st) ==
    IF BagCardinality(st) > MaxScores
    THEN {DeleteRow(st, w) : w \in WorstRows(st)}
    ELSE {st}

\* the table after "if (count >= 100) DELETE the worst row"
Evicted(st) ==
    IF BagCardinality(st) >= MaxScores
    THEN {DeleteRow(st, w) : w \in WorstRows(st)}
    ELSE {st}

PostLimited ==
    /\ variant = "limited"
    /\ req.method = "POST"
    /\ req' = NoReq
    /\ LET error == validateScoreLimited(req, req.ip, store, now) IN
       IF error # Valid
       THEN /\ response' = Answer(400, error, <<>>)
            /\ UNCHANGED <<store, inserted>>
       ELSE \E st \in Evicted(store) :
            IF InsertThrows(req)
            THEN /\ store' = st
                 /\ response' = Answer(500, "Internal server error", <<>>)
                 /\ UNCHANGED inserted
            ELSE /\ store' = InsertRow(st,
                        Row(req.name, req.time, req.moves, req.date, req.ip))
                 /\ response' = Answer(200, "", <<>>)
                 /\ inserted' = inserted + 1
    /\ UNCHANGED <<variant, now, before>>

\* ---- the open variant: app.post('/api/scores') ----
PostOpen ==
    /\ variant = "open"
    /\ req.method = "POST"
    /\ req' = NoReq
    /\ LET error == validateScoreOpen(req) IN
       IF error # Valid
       THEN /\ response' = Answer(400, error, <<>>)
            /\ UNCHANGED <<store, inserted>>
       ELSE IF InsertThrows(req)
       THEN /\ response' = Answer(500, "NOT NULL constraint failed", <<>>)
            /\ UNCHANGED <<store, inserted>>
       ELSE /\ store' = InsertRow(store,
                   Row(req.name, req.time, req.moves, req.date, NoIp))
            /\ response' = Answer(200, "", <<>>)
            /\ inserted' = inserted + 1
    /\ UNCHANGED <<variant, now, before>>

\* ---- app.get('/api/scores') ----
\* ORDER BY moves ASC, time ASC LIMIT k: every order the ties allow
RECURSIVE TopRows(_, _)
TopRows(st, k) ==
    IF k = 0 \/ st = EmptyBag THEN {<<>>}
    ELSE UNION {{<<r>> \o rest : rest \in TopRows(DeleteRow(st, r), k - 1)} :
                r \in BestRows(st)}

\* SELECT id, name, time, moves, date: the ip_address is not returned
Public(r) == [name |-> r.name, time |-> r.time, moves |-> r.moves,
              date |-> r.date]

Project(rows) == [i \in 1..Len(rows) |-> Public(rows[i])]

GetScores ==
    /\ req.method = "GET"
    /\ req' = NoReq
    /\ \E rows \in TopRows(store, 10) :
           response' = Answer(200, "", Project(rows))
    /\ UNCHANGED <<variant, store, now, before, inserted>>

\* ---- the open variant: app.delete('/api/scores') ----
DeleteScores ==
    /\ variant = "open"
    /\ req.method = "DELETE"
    /\ req' = NoReq
    /\ store' = EmptyBag
    /\ response' = Answer(200, "All scores deleted successfully", <<>>)
    /\ UNCHANGED <<variant, now, before, inserted>>

\* an hour passes
Tick ==
    /\ req = NoReq
    /\ now < StartClock + MaxTicks
    /\ now' = now + 1
    /\ UNCHANGED <<variant, store, req, response, before, inserted>>

Init == GameInit /\ ServerInit

\* The page alone: the service is left as one run finds it, without requests.
PageInit == Init /\ variant = "limited" /\ store = EmptyBag

Next ==
    \/ startGame /\ UNCHANGED serverVars
    \/ (\E towerIndex \in Pegs : handleTowerClick(towerIndex))
           /\ UNCHANGED serverVars
    \/ resetGame /\ UNCHANGED serverVars

Spec == PageInit /\ [][Next]_vars

ServerNext ==
    \/ SendPost /\ UNCHANGED <<gameVars, histVars, loopVars>>
    \/ SendGet /\ UNCHANGED <<gameVars, histVars, loopVars>>
    \/ SendDelete /\ UNCHANGED <<gameVars, histVars, loopVars>>
    \/ PostLimited /\ UNCHANGED <<gameVars, histVars, loopVars>>
    \/ PostOpen /\ UNCHANGED <<gameVars, histVars, loopVars>>
    \/ GetScores /\ UNCHANGED <<gameVars, histVars, loopVars>>
    \/ DeleteScores /\ UNCHANGED <<gameVars, histVars, loopVars>>
    \/ ReadResponse /\ UNCHANGED <<gameVars, histVars, loopVars>>
    \/ Tick /\ UNCHANGED <<gameVars, histVars, loopVars>>

ServerSpec == Init /\ [][ServerNext]_vars

(***************************************************************************)
(* RateSpec: one run of the limited variant from an empty table, with      *)
(* well-formed requests whose date is true or claims a day long past, and  *)
(* the origin and hour of every INSERT written down.                       *)
(***************************************************************************)
\* Bound: rows inserted in a run of RateSpec.
MaxBurst == 6

BurstRequests ==
    [method : {"POST"}, ip : Ips, name : {NameAnn}, time : {Num(30)},
     moves : {Num(63)}, date : {Iso(0), Iso(StartClock)}]

SendBurst ==
    /\ CanSend
    /\ inserted < MaxBurst
    /\ \E r \in BurstRequests : Arrive(r)

\* The INSERT of this step, if it makes one, is written down.
LogInsert ==
    log' = IF inserted' = inserted + 1
           THEN log (+) SetToBag({[ip |-> req.ip, at |-> now]})
           ELSE log

RateInit == Init /\ variant = "limited" /\ store = EmptyBag

RateNext ==
    \/ SendBurst /\ UNCHANGED <<gameVars, histVars, loopVars>>
    \/ PostLimited /\ LogInsert /\ UNCHANGED <<gameVars, ever, loopVars>>
    \/ ReadResponse /\ UNCHANGED <<gameVars, histVars, loopVars>>
    \/ Tick /\ UNCHANGED <<gameVars, histVars, loopVars>>

RateSpec == RateInit /\ [][RateNext]_vars

(***************************************************************************)
(* BoardSpec: the leaderboard of the limited variant over a full table,    *)
(* with every row the table ever held kept in `ever`.                      *)
(***************************************************************************)
\* Bound: rows one run of BoardSpec inserts.
MaxBoardPosts == 3

\* A full table whose ten best rows are three good scores and seven of the
\* ninety-seven poor ones.
Leaders ==
    [r \in {Old(30, 63, "a"), Old(500, 200, "b")} |->
        IF r = Old(30, 63, "a") THEN 3 ELSE MaxScores - 3]

BoardRequests ==
    [method : {"POST"}, ip : Ips, name : {NameAnn},
     time : {Num(30), Num(MaxTime)}, moves : {Num(63), Num(100), Num(200)},
     date : {DateNull, Iso(0)}]

SendScore ==
    /\ CanSend
    /\ inserted < MaxBoardPosts
    /\ \E r \in BoardRequests : Arrive(r)

\* The row this step inserts, if it inserts one, joins the rows ever held.
EverInsert ==
    ever' = IF inserted' = inserted + 1
            THEN InsertRow(ever,
                     Row(req.name, req.time, req.moves, req.date, req.ip))
            ELSE ever

BoardInit ==
    /\ GameInit
    /\ variant = "limited"
    /\ store \in {AlmostFull, Leaders}
    /\ now = StartClock
    /\ req = NoReq
    /\ response = NoResponse
    /\ before = store
    /\ inserted = 0
    /\ log = EmptyBag
    /\ ever = store
    /\ pending = EmptyBag
    /\ running = {}

BoardNext ==
    \/ SendScore /\ UNCHANGED <<gameVars, histVars, loopVars>>
    \/ SendGet /\ UNCHANGED <<gameVars, histVars, loopVars>>
    \/ PostLimited /\ EverInsert /\ UNCHANGED <<gameVars, log, loopVars>>
    \/ GetScores /\ UNCHANGED <<gameVars, histVars, loopVars>>
    \/ ReadResponse /\ UNCHANGED <<gameVars, histVars, loopVars>>

BoardSpec == BoardInit /\ [][BoardNext]_vars

(***************************************************************************)
(* ConcSpec: the POST handler of the limited variant statement by          *)
(* statement, with several requests received before any is handled.  The   *)
(* handler body has no await and no callback: every statement is a         *)
(* synchronous better-sqlite3 call, so the event loop begins the next      *)
(* handler call only when the one in progress has returned.                *)
(***************************************************************************)
\* Bound: requests one run of ConcSpec takes on.
MaxConcurrent == 3

ConcRequests ==
    [method : {"POST"}, ip : Ips, name : {NameAnn}, time : {Num(30)},
     moves : {Num(62), Num(63), Num(200)}, date : {DateNull, Iso(0)}]

\* A handler call in progress: its request, the statement it is at, and its
\* local `count`.
Frame(id, r, pc, count) == [id |-> id, req |-> r, pc |-> pc, count |-> count]

FreshFrame(run) ==
    CHOOSE id \in 1..(Cardinality(run) + 1) : \A f \in run : f.id # id

\* A plausible slip: a handler that yields between its statements (an
\* asynchronous driver, awaited), so that calls interleave.
MayBeginWhileRunning(run) == TRUE

\* The event loop: a callback runs to its end before the next one begins.
MayBegin(run) == run = {}

\* a request reaches the server while the loop may be busy
Receive ==
    /\ BagCardinality(pending) + Cardinality(running) + inserted < MaxConcurrent
    /\ \E r \in ConcRequests : pending' = pending (+) SetToBag({r})
    /\ UNCHANGED <<coreVars, running>>

\* app.post: validateScore, and the 400 answer if it fails
BeginPost ==
    /\ MayBegin(running)
    /\ \E r \in BagToSet(pending) :
        /\ pending' = pending (-) SetToBag({r})
        /\ LET error == validateScoreLimited(r, r.ip, store, now) IN
           IF error # Valid
           THEN /\ response' = Answer(400, error, <<>>)
                /\ UNCHANGED running
           ELSE /\ running' =
                       running \cup {Frame(FreshFrame(running), r, "count", 0)}
                /\ UNCHANGED response
    /\ UNCHANGED <<variant, store, now, req, before, inserted>>

Replace(run, f, g) == (run \ {f}) \cup {g}

\* const count = db.prepare('SELECT COUNT(*) ...').get(); if (count >= 100)
StmtCount ==
    /\ \E f \in running :
        /\ f.pc = "count"
        /\ LET count == BagCardinality(store) IN
           running' = Replace(running, f,
               Frame(f.id, f.req,
                     IF count >= MaxScores THEN "delete" ELSE "insert", count))
    /\ UNCHANGED <<coreVars, pending>>

\* db.prepare('DELETE FROM scores WHERE id = (SELECT ... LIMIT 1)').run()
StmtDelete ==
    /\ \E f \in running :
        /\ f.pc = "delete"
        /\ \E st \in (IF store = EmptyBag THEN {store}
                      ELSE {DeleteRow(store, w) : w \in WorstRows(store)}) :
               store' = st
        /\ running' = Replace(running, f, Frame(f.id, f.req, "insert", f.count))
    /\ UNCHANGED <<variant, now, req, response, before, inserted, pending>>

\* insert.run(...); res.json({ id }) - or the catch and its 500
StmtInsert ==
    /\ \E f \in running :
        /\ f.pc = "insert"
        /\ running' = running \ {f}
        /\ IF InsertThrows(f.req)
           THEN /\ response' = Answer(500, "Internal server error", <<>>)
                /\ UNCHANGED <<store, inserted>>
           ELSE /\ store' = InsertRow(store,
                       Row(f.req.name, f.req.time, f.req.moves, f.req.date,
                           f.req.ip))
                /\ response' = Answer(200, "", <<>>)
                /\ inserted' = inserted + 1
    /\ UNCHANGED <<variant, now, req, before, pending>>

ConcInit == Init /\ variant = "limited" /\ store = AlmostFull

ConcNext ==
    \/ Receive /\ UNCHANGED <<gameVars, histVars>>
    \/ BeginPost /\ UNCHANGED <<gameVars, histVars>>
    \/ StmtCount /\ UNCHANGED <<gameVars, histVars>>
    \/ StmtDelete /\ UNCHANGED <<gameVars, histVars>>
    \/ StmtInsert /\ UNCHANGED <<gameVars, histVars>>

ConcSpec == ConcInit /\ [][ConcNext]_vars

(***************************************************************************)
(* Puzzle engine: properties                                               *)
(***************************************************************************)
\* The full stack, bottom to top: numDisks, ..., 2, 1
FullStack == [i \in 1..numDisks |-> numDisks + 1 - i]

ClickedFrom == lastOp.op = "click" /\ lastOp.pre = "selected"

\* The last event was the second click of a pair and it moved nothing.
AfterRefusedPair == ClickedFrom /\ moves = lastOp.movesBefore

\* The last event was the second click of a pair and it moved a disk.
AfterMove == ClickedFrom /\ moves = lastOp.movesBefore + 1

\* C1: every peg holds its disks in strictly decreasing size from bottom to
\* top, in every state start, clicks and reset can reach.
C1_PegsSorted ==
    \A p \in Pegs : \A i, j \in 1..Len(towers[p]) :
        i < j => towers[p][i] > towers[p][j]

\* C1 witness: a pair of clicks has just tried to put a larger disk on a
\* smaller one, with disks on all three pegs.
C1_Witness ==
    /\ AfterRefusedPair
    /\ lastOp.sel # lastOp.idx
    /\ \A p \in Pegs : towers[p] # <<>>
    /\ Top(towers[lastOp.sel]) > Top(towers[lastOp.idx])

\* C2: the disks on the three pegs together are exactly the disks 1..N, each
\* once.
C2_DisksConserved ==
    LET all == towers[0] \o towers[1] \o towers[2]
    IN /\ Len(all) = numDisks
       /\ {all[i] : i \in 1..Len(all)} = 1..numDisks

\* C2 witness: a reset has just been made in the middle of a game, with a peg
\* selected and moves made.
C2_Witness ==
    /\ lastOp.op = "reset"
    /\ lastOp.pre = "selected"
    /\ lastOp.movesBefore > 2

\* C3: with the game active and peg `from` selected, a click on peg `to`
\* moves a disk iff from # to, `from` is not empty and `to` is empty or has a
\* larger top disk; the move takes the top disk of `from`, puts it on top of
\* `to`, leaves the third peg alone and adds exactly 1 to the move counter.
C3_Step ==
    (lastOp'.op = "click" /\ isPlaying /\ selectedTower # Null) =>
        LET from == selectedTower
            to == lastOp'.idx
            legal == /\ from # to
                     /\ towers[from] # <<>>
                     /\ \/ towers[to] = <<>>
                        \/ Top(towers[to]) > Top(towers[from])
        IN IF legal
           THEN /\ towers'[from] = Pop(towers[from])
                /\ towers'[to] = towers[to] \o <<Top(towers[from])>>
                /\ \A p \in Pegs \ {from, to} : towers'[p] = towers[p]
                /\ moves' = moves + 1
           ELSE towers' = towers /\ moves' = moves

C3_MoveIffLegal == [][C3_Step]_vars

\* C3 witness: a disk has just been moved onto a larger one.
C3_Witness ==
    /\ AfterMove
    /\ Len(towers[lastOp.idx]) > 1
    /\ towers[lastOp.sel] # <<>>

\* C4: a second click that names an illegal move (the same peg, or a larger
\* disk onto a smaller one) changes no peg, not the move counter and not the
\* active flag; after the second click of any pair no peg is selected.
C4_Step ==
    (lastOp'.op = "click" /\ isPlaying /\ selectedTower # Null) =>
        /\ selectedTower' = Null
        /\ (\/ lastOp'.idx = selectedTower
            \/ /\ towers[lastOp'.idx] # <<>>
               /\ Top(towers[selectedTower]) > Top(towers[lastOp'.idx]))
           => /\ towers' = towers
              /\ moves' = moves
              /\ isPlaying' = isPlaying

C4_IllegalPairChangesNothing == [][C4_Step]_vars

\* C4 witness: the second click has just named the selected peg itself.
C4_Witness ==
    /\ AfterRefusedPair
    /\ lastOp.sel = lastOp.idx
    /\ selectedTower = Null
    /\ isPlaying
    /\ moves > 0

\* C5: checkWin() is true iff the goal peg holds all N disks and the other
\* two pegs are empty.
C5_WinIffAllOnGoal ==
    checkWin(towers) <=>
        /\ {towers[2][i] : i \in 1..Len(towers[2])} = 1..numDisks
        /\ towers[0] = <<>>
        /\ towers[1] = <<>>

\* C5 witness: the last click completed the goal peg.
C5_Witness == AfterMove /\ lastOp.idx = 2 /\ towers[2] = FullStack

\* C6: whenever a win is detected the move counter is at least 2^N - 1, so
\* saveScore never rejects the score; and a win in exactly 2^N - 1 moves is
\* reachable (the witness).
C6_NoWinBelowMinimum ==
    /\ Len(towers[2]) = numDisks => moves >= 2 ^ numDisks - 1
    /\ saveResult # "rejected"

\* C6 witness: a win with the move counter at exactly 2^N - 1.
C6_Witness ==
    /\ AfterMove
    /\ Len(towers[2]) = numDisks
    /\ ~isPlaying
    /\ moves = 2 ^ numDisks - 1
    /\ saveResult = "posted"

\* C7: reset yields all N disks on the start peg in descending order, the
\* other pegs empty, the move counter 0, the game inactive, no peg selected.
C7_ResetRestoresStart ==
    lastOp.op = "reset" =>
        /\ towers = [p \in Pegs |-> IF p = 0 THEN FullStack ELSE <<>>]
        /\ moves = 0
        /\ ~isPlaying
        /\ selectedTower = Null

\* C7 witness: a reset has just been made after a win.
C7_Witness == lastOp.op = "reset" /\ lastOp.pre = "won"

\* Further states a reset starts from: idle, mid-game without a selection.
C7_WitnessIdle == lastOp.op = "reset" /\ lastOp.pre = "idle"
C7_WitnessPlaying ==
    lastOp.op = "reset" /\ lastOp.pre = "playing" /\ lastOp.movesBefore > 0

(***************************************************************************)
(* Score service: properties                                               *)
(***************************************************************************)
\* This step is a handler answering the POST in flight.
PostHandled == req.method = "POST" /\ req' = NoReq

\* The row an accepted POST inserts.
NewRow ==
    Row(req.name, req.time, req.moves, req.date,
        IF variant = "limited" THEN req.ip ELSE NoIp)

\* C8: in the capped variant the table never holds more than 100 rows,
\* whatever POST and GET requests have been handled.
C8_AtMostHundred == variant = "limited" => BagCardinality(store) <= 100

\* C8 witness: a POST that found 100 rows has been answered with 200.
C8_Witness ==
    /\ variant = "limited"
    /\ response.status = 200
    /\ BagCardinality(before) = 100
    /\ BagCardinality(store) = 100

\* C9: a POST answered with success that finds 100 rows removes exactly one
\* row, one with the highest moves and among those the highest time, keeps
\* every other row and adds the new one, leaving 100 rows; one that finds
\* fewer than 100 rows removes none.
C9_Step ==
    (PostHandled /\ variant = "limited" /\ response'.status = 200) =>
        IF BagCardinality(store) = 100
        THEN /\ \E w \in Rows(store) :
                  /\ \A s \in Rows(store) :
                        \/ s.moves.v < w.moves.v
                        \/ s.moves.v = w.moves.v /\ s.time.v <= w.time.v
                  /\ store' = (store (-) SetToBag({w})) (+) SetToBag({NewRow})
             /\ BagCardinality(store') = 100
        ELSE store' = store (+) SetToBag({NewRow})

C9_EvictsTheWorst == [][C9_Step]_vars

\* C9 witness: the row (moves 200, time 500), the worst of 100, has just
\* been given up for a new row.
C9_Witness ==
    /\ response.status = 200
    /\ BagCardinality(before) = 100
    /\ BagIn(Old(500, 200, "b"), before)
    /\ ~BagIn(Old(500, 200, "b"), store)
    /\ \E r \in Rows(store) : ~BagIn(r, before)

\* C10: in both variants a POST whose moves is below 63 is answered with 400
\* and adds no row; so every row of the table has moves >= 63.
C10_Step ==
    (PostHandled /\ req.moves.v < 63) =>
        response'.status = 400 /\ store' = store

C10_RowsAtLeastMinimum ==
    \A r \in Rows(store) : r.moves.t = "number" /\ r.moves.v >= 63

C10_BelowMinimumRejected == [][C10_Step]_vars /\ []C10_RowsAtLeastMinimum

\* C10 witness: a POST has just been refused for its number of moves, and
\* the table, not empty, is as it was.
C10_Witness ==
    /\ response.status = 400
    /\ response.error = "Invalid number of moves"
    /\ store = before
    /\ store # EmptyBag

\* The rules of the limited variant, each as a test of the request alone (the
\* rate limit: of the request and what the table holds of its origin).
NameRuleBroken(r) ==
    ~(r.name.t = "string" /\ r.name.len - r.name.ws >= 1 /\ r.name.len <= 50)

TimeRuleBroken(r) ==
    ~(r.time.t = "number" /\ r.time.v >= 0 /\ r.time.v <= 3600)

MovesRuleBroken(r) == ~(r.moves.t = "number" /\ r.moves.v >= 63)

DateRuleBroken(r) ==
    \/ r.date.t = "string" /\ r.date.fmt = "bad"
    \/ r.date.t = "string" /\ r.date.h > now

RateRuleBroken(r) == RecentCount(store, r.ip, now) >= 5

\* The rules a request breaks, as their places 1..5 in the stated order.
BrokenRules(r) ==
    {k \in 1..5 : \/ k = 1 /\ NameRuleBroken(r)
                  \/ k = 2 /\ TimeRuleBroken(r)
                  \/ k = 3 /\ MovesRuleBroken(r)
                  \/ k = 4 /\ DateRuleBroken(r)
                  \/ k = 5 /\ RateRuleBroken(r)}

\* The place of the rule an error message belongs to.
RuleOfError(error) ==
    IF error \in {"Invalid name", "Name too long"} THEN 1
    ELSE IF error = "Invalid time" THEN 2
    ELSE IF error \in {"Invalid moves", "Invalid number of moves"} THEN 3
    ELSE IF error = "Invalid date" THEN 4
    ELSE IF error = "Too many submissions from this IP" THEN 5
    ELSE 0

\* C11: the rules are applied in the order name, time, moves, date, rate
\* limit: the 400 answer names the first rule in that order the request
\* breaks, whatever the fields of the later rules are, and a request is
\* stored only if it breaks none.
C11_Step ==
    (PostHandled /\ variant = "limited") =>
        IF BrokenRules(req) # {}
        THEN /\ response'.status = 400
             /\ \A k \in BrokenRules(req) : RuleOfError(response'.error) <= k
             /\ RuleOfError(response'.error) \in BrokenRules(req)
             /\ store' = store
        ELSE response'.status # 400

C11_FirstBrokenRuleWins == [][C11_Step]_vars

\* C11 witness: a request refused for the rate limit alone: every earlier
\* rule was passed.
C11_Witness ==
    /\ variant = "limited"
    /\ response.status = 400
    /\ response.error = "Too many submissions from this IP"
    /\ store = before

\* Further answers the order produces.
C11_WitnessTime == response.status = 400 /\ response.error = "Invalid time"
C11_WitnessDate == response.status = 400 /\ response.error = "Invalid date"

\* C12: in every variant a POST whose name is longer than 50 characters or
\* whose time is above 3600 is answered with 400 and not stored; so every
\* row has a name of 1 to 50 characters and a time from 0 to 3600.
C12_Step ==
    (PostHandled /\ (req.name.len > 50 \/ req.time.v > 3600)) =>
        response'.status = 400 /\ store' = store

C12_RowsInRange ==
    \A r \in Rows(store) :
        /\ r.name.len >= 1 /\ r.name.len <= 50
        /\ r.time.v >= 0 /\ r.time.v <= 3600

C12_LongNameOrTimeRejected == [][C12_Step]_vars /\ []C12_RowsInRange

\* The same, of the limited variant alone.
C12_LimitedStep == variant = "limited" => C12_Step

C12_LimitedOnly ==
    [][C12_LimitedStep]_vars /\ [](variant = "limited" => C12_RowsInRange)

\* INSERTs made for an origin in the hour h
InsertedIn(ip, h) == CopiesIn([ip |-> ip, at |-> h], log)

\* C13: once an origin has had 5 rows inserted within the trailing hour,
\* every further POST of that origin within that hour is answered with 400
\* and inserts nothing; so no origin gets more than 5 rows inserted within
\* one hour, whatever dates the bodies claim.
C13_Step ==
    (PostHandled /\ variant = "limited" /\ InsertedIn(req.ip, now) >= 5) =>
        response'.status = 400 /\ store' = store

C13_AtMostFivePerHour ==
    \A ip \in Ips : \A h \in StartClock..now : InsertedIn(ip, h) <= 5

C13_RateLimitHolds == [][C13_Step]_vars /\ []C13_AtMostFivePerHour

\* What the code does keep: an origin with 5 stored rows whose date texts
\* are later than the cutoff text is refused.
C13_CountedRowsStep ==
    (PostHandled /\ variant = "limited"
        /\ RecentCount(store, req.ip, now) >= 5) =>
        response'.status = 400 /\ store' = store

C13_CountedRowsRefuse == [][C13_CountedRowsStep]_vars

\* This step is the handler answering the GET in flight.
GetHandled == req.method = "GET" /\ req' = NoReq

\* q ranks strictly before r: fewer moves, or the same moves in less time
RanksBefore(q, r) ==
    \/ q.moves.v < r.moves.v
    \/ q.moves.v = r.moves.v /\ q.time.v < r.time.v

\* How often the returned list holds q, and how often the table holds a row
\* whose returned columns are q.
TimesListed(body, q) == Cardinality({i \in 1..Len(body) : body[i] = q})

TimesStored(st, q) == SumCopies(st, {r \in Rows(st) : Public(r) = q})

\* C14: GET returns min(10, size of the table) rows, all of the table, by
\* moves ascending and then time ascending, none of the rows left out
\* ranking strictly before a returned one; and GET leaves the table as it is.
C14_Step ==
    GetHandled =>
        LET body == response'.body
            size == BagCardinality(store)
        IN /\ response'.status = 200
           /\ Len(body) = IF size < 10 THEN size ELSE 10
           /\ \A i \in 1..Len(body) :
                  TimesListed(body, body[i]) <= TimesStored(store, body[i])
           /\ \A i, j \in 1..Len(body) :
                  i < j => ~RanksBefore(body[j], body[i])
           /\ \A r \in Rows(store) :
                  TimesStored(store, Public(r)) > TimesListed(body, Public(r))
                      => \A i \in 1..Len(body) : ~RanksBefore(r, body[i])
           /\ store' = store

C14_GetReturnsTopTen == [][C14_Step]_vars

\* C14 witness: ten rows have been returned of a table of 99 or more.
C14_Witness ==
    /\ response.status = 200
    /\ Len(response.body) = 10
    /\ BagCardinality(store) >= 99
    /\ store = before

\* A list shorter than ten, in which the time decides between equal moves.
C14_WitnessTie ==
    /\ Len(response.body) = 2
    /\ response.body[1].moves = response.body[2].moves
    /\ response.body[1].time.v < response.body[2].time.v

\* C15: the count, the eviction and the insert of one POST are one atomic
\* step for every other request: however POST requests received together
\* are served, the table never holds more than 100 rows, and no handler call
\* begins while another is between its statements.
C15_AtomicPost ==
    /\ BagCardinality(store) <= 100
    /\ Cardinality(running) <= 1

\* C15 witness: a handler that counted 100 rows has deleted one and not yet
\* inserted, while another POST is waiting.
C15_Witness ==
    /\ pending # EmptyBag
    /\ BagCardinality(store) = 99
    /\ \E f \in running : f.pc = "insert" /\ f.count = 100

\* Three rows inserted, by requests of which two were waiting together.
C15_WitnessFull == inserted = MaxConcurrent /\ BagCardinality(store) = 100

\* C16: a POST answered with an error (400 or 500) leaves the table exactly
\* as it was before the request.
C16_Step ==
    (PostHandled /\ response'.status \in {400, 500}) => store' = store

C16_ErrorLeavesStore == [][C16_Step]_vars

\* What the code does keep: a POST answered 400 leaves the table as it was,
\* and one answered 500 removes at most the worst row and adds none.
C16_RefusedStep ==
    PostHandled =>
        /\ response'.status = 400 => store' = store
        /\ response'.status = 500 =>
               \/ store' = store
               \/ /\ BagCardinality(store) >= MaxScores
                  /\ \E w \in WorstRows(store) : store' = DeleteRow(store, w)

C16_RefusedLeavesStore == [][C16_RefusedStep]_vars

(***************************************************************************)
(* Puzzle engine: sessions, selection and the timer                        *)
(***************************************************************************)
\* The last event was a press of the start button that started a game.
Started == lastOp.op = "start" /\ lastOp.pre \in {"idle", "won"}

\* C17: every score describes one single play: every start of a game begins
\* with the move counter at 0 and all the disks on the start peg.
C17_StartBeginsFresh ==
    Started => (moves = 0 /\ towers[0] = FullStack)

\* What the code does keep: a game started from the loaded or the reset
\* board begins fresh; one started after a win goes on from the solved board
\* and the counter of the play before.
C17_StartContinues ==
    Started => (moves = lastOp.movesBefore /\
                (lastOp.pre = "idle" => moves = 0 /\ towers[0] = FullStack))

\* C18: a selected peg implies an active game and a non-empty selected peg.
C18_SelectionSound ==
    selectedTower # Null => (isPlaying /\ towers[selectedTower] # <<>>)

\* C18: while the game is inactive a peg click changes neither the pegs, the
\* move counter nor the selection.
C18_InactiveClickStep ==
    (~isPlaying /\ \E towerIndex \in Pegs : lastOp' = Event("click", towerIndex))
        => UNCHANGED <<towers, moves, selectedTower>>

\* C18: both parts together.
C18_SelectionNeedsActiveGame ==
    []C18_SelectionSound /\ [][C18_InactiveClickStep]_vars

\* C18 witness: a peg of a solved board was clicked after the win.
C18_Witness ==
    lastOp.op = "click" /\ lastOp.pre = "won" /\ towers[lastOp.idx] # <<>>

\* Further cases: a click before any start; a selection in an active game.
C18_WitnessIdle == lastOp.op = "click" /\ lastOp.pre = "idle"
C18_WitnessSelected == selectedTower # Null /\ moves > 0

\* C19: at most one timer task is scheduled, and one is scheduled exactly
\* when the game is active.
C19_OneTimerWhenActive ==
    /\ Cardinality(activeTimers) <= 1
    /\ isPlaying <=> activeTimers # {}

\* C19 witness: the start button was pressed in an active game.
C19_Witness ==
    /\ lastOp.op = "start"
    /\ lastOp.pre \in {"playing", "selected"}
    /\ Cardinality(activeTimers) = 1

\* Further cases: a win and a reset of an active game have cancelled the task;
\* a game started again after a win has one task.
C19_WitnessWin == AfterMove /\ checkWin(towers) /\ activeTimers = {}
C19_WitnessReset ==
    lastOp.op = "reset" /\ lastOp.pre \in {"playing", "selected"}
        /\ activeTimers = {}
C19_WitnessRestart ==
    lastOp.op = "start" /\ lastOp.pre = "won" /\ Cardinality(activeTimers) = 1

(***************************************************************************)
(* Score service: the leaderboard and the rows evicted                     *)
(***************************************************************************)
Pair(r) == <<r.moves.v, r.time.v>>

\* The (moves, time) pairs of the k best rows of a collection, best first;
\* rows that tie have the same pair, so the choice among them does not show.
RECURSIVE BestPairs(_, _)
BestPairs(st, k) ==
    IF k = 0 \/ st = EmptyBag THEN <<>>
    ELSE LET r == CHOOSE x \in BestRows(st) : TRUE
         IN <<Pair(r)>> \o BestPairs(DeleteRow(st, r), k - 1)

\* C20: in the capped variant the (moves, time) pairs GET returns are those
\* of the 10 best rows among all the rows ever accepted, evicted ones
\* included.
C20_Step ==
    (GetHandled /\ variant = "limited") =>
        [i \in 1..Len(response'.body) |-> Pair(response'.body[i])]
            = BestPairs(ever, 10)

C20_EvictionSparesTheBoard == [][C20_Step]_vars

\* C20 witness: the leaderboard has been returned after rows were evicted.
C20_Witness ==
    /\ response.status = 200
    /\ Len(response.body) = 10
    /\ BagCardinality(ever) >= BagCardinality(store) + 2

\* Further case: a row of the initial leaders' table is gone, another took
\* its place among the ten.
C20_WitnessChanged ==
    /\ response.status = 200
    /\ Len(response.body) = 10
    /\ Pair(response.body[4]) = <<63, MaxTime>>
    /\ BagCardinality(ever) > BagCardinality(store)

====
